---- MODULE Spec2Model ----
(***************************************************************************)
(* Media server: the media table, the upload directory and the HTTP        *)
(* handlers of src/src/media/api.ts over src/src/media/service.ts.         *)
(*                                                                         *)
(* Each action of Spec is one whole HTTP request (route handler, service   *)
(* call, error handler), so Spec is the server handling requests one at a  *)
(* time.  SpecConc adds requests in flight together: a soft-delete, a      *)
(* restore or a delete there takes one step per database or file system    *)
(* call it awaits, and the steps of different requests interleave.         *)
(*                                                                         *)
(* Values.  A timestamp is the number of clock ticks since start; NULL is  *)
(* SQL/JSON null.  A file name "<base><ext>" is the pair <<base, ext>>; a  *)
(* MIME type "<type>/<subtype>" is the pair <<type, subtype>>.  A JSON     *)
(* value of a request body is [type, value] with type the result of        *)
(* JavaScript's typeof.  A path parameter is a sequence of characters.     *)
(***************************************************************************)
EXTENDS Integers, Sequences, FiniteSets, TLC

VARIABLES table, files, nextId, nextFile, now, last, inflight

vars == <<table, files, nextId, nextFile, now, last, inflight>>

\* Bounds of the model: files ever written by uploads, clock ticks, and
\* requests whose steps interleave with others'.
MaxUploads == 1
MaxTime == 1
MaxRequests == 2

NULL == -1

\* enum HttpStatusCode
OK == 200
Created == 201
BadRequest == 400
Unauthorized == 401
NotFound == 404
InternalServerError == 500

Columns ==
  {"id", "originalFileName", "storedFileName", "mimeType", "width", "height",
   "fileSize", "createdAt", "updatedAt", "deletedAt"}

----------------------------------------------------------------------------
(* JSON values and JavaScript helpers *)

Num(n) == [type |-> "number", value |-> n]
Str(s) == [type |-> "string", value |-> s]
JsonNull == [type |-> "object", value |-> NULL]

\* !v for the JSON values of the model (no body carries an empty string).
Falsy(v) ==
  \/ v.type = "number" /\ v.value = 0
  \/ v.type = "object"

DigitChars == <<"0", "1", "2", "3", "4", "5", "6", "7", "8", "9">>

IsDigit(c) == \E i \in 1..Len(DigitChars) : DigitChars[i] = c

DigitValue(c) == (CHOOSE i \in 1..Len(DigitChars) : DigitChars[i] = c) - 1

NaN == <<>>

RECURSIVE ParseDigits(_, _, _)
ParseDigits(s, i, acc) ==
  IF i > Len(s) \/ ~IsDigit(s[i])
  THEN acc
  ELSE ParseDigits(s, i + 1, acc * 10 + DigitValue(s[i]))

\* parseInt(s, 10): an optional sign, then the longest prefix of digits;
\* NaN when there is no digit.  <<n>> is the number n.
ParseInt(s) ==
  LET neg  == Len(s) > 0 /\ s[1] = "-"
      from == IF neg THEN 2 ELSE 1
  IN  IF from > Len(s) \/ ~IsDigit(s[from])
      THEN NaN
      ELSE <<(IF neg THEN -1 ELSE 1) * ParseDigits(s, from, 0)>>

isNaN(r) == r = NaN

\* path.extname of a file name <<base, ext>>
extname(name) == name[2]

\* String.startsWith("image/") on a MIME type <<type, subtype>>
StartsWithImage(mimetype) == mimetype[1] = "image"

----------------------------------------------------------------------------
(* Responses *)

\* errorHandler without its NotFoundError branch
errorHandlerNoNotFound(err) ==
  CASE err = "ValidationError"   -> BadRequest
    [] err = "UnauthorizedError" -> Unauthorized
    [] OTHER                     -> InternalServerError

\* errorHandler: the status of an error by its class
errorHandler(err) ==
  CASE err = "NotFoundError"     -> NotFound
    [] err = "ValidationError"   -> BadRequest
    [] err = "UnauthorizedError" -> Unauthorized
    [] OTHER                     -> InternalServerError

\* The record of a request: the operation, the id it parsed (NaN: none), the
\* MIME type of an upload, the error thrown ("none": none), the status and the
\* kind of data of the response (status 0: a direct call of the service, no
\* response), the outcome of fs.unlink, and after: the operation of the
\* request before it when that one succeeded on the same id and the pair is a
\* soft-delete then restore, or a delete then delete.
Record(op, id, input, err, status, data) ==
  [op |-> op, id |-> id, input |-> input, err |-> err, status |-> status,
   data |-> data, unlink |-> "none", after |-> "none"]

\* The response to a request that threw err: data is null.
Failure(op, id, input, err) ==
  Record(op, id, input, err, errorHandler(err), "null")

\* res.sendApiResponse(data, code)
Success(op, id, input, code, data) ==
  Record(op, id, input, "none", code, data)

NoInput == <<>>

\* new Date() read again within one call: the clock may have advanced since
\* the read that gave from.
Clock(from) == {t \in {from, from + 1} : t <= MaxTime}

----------------------------------------------------------------------------
(* The table (db) and the service *)

\* db.select().from(Media).where(eq(Media.id, id))
SelectById(tbl, id) == {r \in tbl : r.id = id}

\* db.update(Media).set(updates).where(eq(Media.id, id)): the table afterwards.
\* updates maps column names to stored values.
UpdateSet(tbl, id, updates) ==
  {IF r.id = id
   THEN [f \in DOMAIN r |-> IF f \in DOMAIN updates THEN updates[f] ELSE r[f]]
   ELSE r : r \in tbl}

\* db.delete(Media).where(eq(Media.id, id)): the table afterwards.
DeleteById(tbl, id) == {r \in tbl : r.id # id}

\* The identifier the table assigns to an inserted row that brings none.
NewId(next) == next

\* A property that is undefined in a model reads as falsy.
Missing(data, f) == f \notin DOMAIN data \/ Falsy(data[f])

\* validateCreate throws (a plain Error)
validateCreateThrows(data) ==
  \/ Missing(data, "originalFileName")
  \/ Missing(data, "storedFileName")
  \/ Missing(data, "mimeType")
  \/ Missing(data, "width")
  \/ Missing(data, "height")
  \/ Missing(data, "fileSize")

\* validateUpdate throws (a plain Error)
validateUpdateThrows(data) ==
  \/ "width" \in DOMAIN data /\ data.width.type # "number"
  \/ "height" \in DOMAIN data /\ data.height.type # "number"

\* The result of a service call: the error thrown ("none": it returned), the
\* table afterwards and the rows returned.
Result(err, tbl, rows) == [err |-> err, table |-> tbl, rows |-> rows]

\* getById
getById(tbl, id) == Result("none", tbl, SelectById(tbl, id))

\* The row db.insert(Media).values(model) stores: the model's id when it has
\* one, else a new one.  The model carries every other column.
InsertedRow(model, next) ==
  [f \in Columns |->
     IF f = "id"
     THEN IF "id" \in DOMAIN model /\ model.id.type # "object"
          THEN model.id.value
          ELSE NewId(next)
     ELSE model[f].value]

\* create: validateCreate, then the insert, which the primary key rejects
\* (a plain Error) when the id is taken.
create(tbl, model, next) ==
  IF validateCreateThrows(model)
  THEN Result("Error", tbl, {})
  ELSE LET row == InsertedRow(model, next)
       IN  IF SelectById(tbl, row.id) # {}
           THEN Result("Error", tbl, {})
           ELSE Result("none", tbl \cup {row}, {row})

\* update: validateUpdate, the id is taken out of the updates, and an update
\* that sets nothing is refused by the query builder (a plain Error).
update(tbl, model) ==
  IF validateUpdateThrows(model)
  THEN Result("Error", tbl, {})
  ELSE LET cols    == DOMAIN model \ {"id"}
           updates == [f \in cols |-> model[f].value]
           id      == model.id.value
       IN  IF cols = {}
           THEN Result("Error", tbl, {})
           ELSE IF SelectById(tbl, id) = {}
                THEN Result("NotFoundError", tbl, {})
                ELSE Result("none", UpdateSet(tbl, id, updates),
                            SelectById(UpdateSet(tbl, id, updates), id))

\* createOrUpdate: if (model.id) update else create
createOrUpdate(tbl, model, next) ==
  IF ~Missing(model, "id")
  THEN update(tbl, model)
  ELSE create(tbl, model, next)

\* softDelete without the check of the current deletedAt
softDeleteUnchecked(tbl, id, deletedAt, updatedAt) ==
  LET found == SelectById(tbl, id)
  IN  IF found = {}
      THEN Result("NotFoundError", tbl, {})
      ELSE LET t == UpdateSet(tbl, id,
                      [deletedAt |-> deletedAt, updatedAt |-> updatedAt])
           IN  Result("none", t, SelectById(t, id))

\* softDelete, with the two clock reads deletedAt and updatedAt
softDelete(tbl, id, deletedAt, updatedAt) ==
  LET found == SelectById(tbl, id)
  IN  IF found = {}
      THEN Result("NotFoundError", tbl, {})
      ELSE IF \E r \in found : r.deletedAt # NULL
           THEN Result("ValidationError", tbl, {})
           ELSE LET t == UpdateSet(tbl, id,
                           [deletedAt |-> deletedAt, updatedAt |-> updatedAt])
                IN  Result("none", t, SelectById(t, id))

\* restore that writes the timestamp to deletedAt too
restoreStampsDeletedAt(tbl, id, updatedAt) ==
  LET found == SelectById(tbl, id)
  IN  IF found = {}
      THEN Result("NotFoundError", tbl, {})
      ELSE IF \E r \in found : r.deletedAt = NULL
           THEN Result("ValidationError", tbl, {})
           ELSE LET t == UpdateSet(tbl, id,
                           [deletedAt |-> updatedAt, updatedAt |-> updatedAt])
                IN  Result("none", t, SelectById(t, id))

\* restore
restore(tbl, id, updatedAt) ==
  LET found == SelectById(tbl, id)
  IN  IF found = {}
      THEN Result("NotFoundError", tbl, {})
      ELSE IF \E r \in found : r.deletedAt = NULL
           THEN Result("ValidationError", tbl, {})
           ELSE LET t == UpdateSet(tbl, id,
                           [deletedAt |-> NULL, updatedAt |-> updatedAt])
                IN  Result("none", t, SelectById(t, id))

\* softDelete up to its update: the select and the two checks of the record
\* it read.  The error thrown ("none": the call goes on to the update).
softDeleteCheck(tbl, id) ==
  LET found == SelectById(tbl, id)
  IN  IF found = {}
      THEN "NotFoundError"
      ELSE IF \E r \in found : r.deletedAt # NULL
           THEN "ValidationError"
           ELSE "none"

\* an update of softDelete that leaves a row alone once its deletedAt is set
softDeleteWriteIfActive(tbl, id, deletedAt, updatedAt) ==
  LET hit == {r \in SelectById(tbl, id) : r.deletedAt = NULL}
      t   == IF hit = {}
             THEN tbl
             ELSE UpdateSet(tbl, id,
                    [deletedAt |-> deletedAt, updatedAt |-> updatedAt])
  IN  Result("none", t, IF hit = {} THEN {} ELSE SelectById(t, id))

\* The update of softDelete, on the table as it is by then: where id = id
\* and nothing else.  rows is what .returning() gives.
softDeleteWrite(tbl, id, deletedAt, updatedAt) ==
  LET t == UpdateSet(tbl, id,
             [deletedAt |-> deletedAt, updatedAt |-> updatedAt])
  IN  Result("none", t, SelectById(t, id))

\* restore up to its update: the select and the two checks
restoreCheck(tbl, id) ==
  LET found == SelectById(tbl, id)
  IN  IF found = {}
      THEN "NotFoundError"
      ELSE IF \E r \in found : r.deletedAt = NULL
           THEN "ValidationError"
           ELSE "none"

\* The update of restore, on the table as it is by then
restoreWrite(tbl, id, updatedAt) ==
  LET t == UpdateSet(tbl, id, [deletedAt |-> NULL, updatedAt |-> updatedAt])
  IN  Result("none", t, SelectById(t, id))

\* fs.unlink(path) on the upload directory: the outcomes it can have.  "EIO"
\* is any failure other than ENOENT; the file then stays.
UnlinkOutcomes(dir, name) ==
  (IF name \in dir THEN {"ok"} ELSE {"ENOENT"}) \cup {"EIO"}

\* The upload directory after fs.unlink ended with outcome
Unlink(dir, name, outcome) == IF outcome = "ok" THEN dir \ {name} ELSE dir

\* remove that never calls fs.unlink
removeKeepsFile(tbl, dir, id, outcome) ==
  LET found == SelectById(tbl, id)
  IN  IF found = {}
      THEN [err |-> "NotFoundError", table |-> tbl, files |-> dir,
            rowsAffected |-> 0]
      ELSE [err |-> "none", table |-> DeleteById(tbl, id), files |-> dir,
            rowsAffected |-> Cardinality(found)]

\* remove whose catch block rethrows the errors other than ENOENT
removeRethrows(tbl, dir, id, outcome) ==
  LET found == SelectById(tbl, id)
  IN  IF found = {}
      THEN [err |-> "NotFoundError", table |-> tbl, files |-> dir,
            rowsAffected |-> 0]
      ELSE LET record == CHOOSE r \in found : TRUE
           IN  [err |-> IF outcome = "EIO" THEN "Error" ELSE "none",
                table |-> DeleteById(tbl, id),
                files |-> Unlink(dir, record.storedFileName, outcome),
                rowsAffected |-> Cardinality(found)]

\* remove: the error thrown, the table and directory afterwards, and
\* rowsAffected of the delete.  The catch block around fs.unlink rethrows
\* nothing, whatever the outcome.
remove(tbl, dir, id, outcome) ==
  LET found == SelectById(tbl, id)
  IN  IF found = {}
      THEN [err |-> "NotFoundError", table |-> tbl, files |-> dir,
            rowsAffected |-> 0]
      ELSE LET record == CHOOSE r \in found : TRUE
           IN  [err |-> "none", table |-> DeleteById(tbl, id),
                files |-> Unlink(dir, record.storedFileName, outcome),
                rowsAffected |-> Cardinality(found)]

\* The name multer's diskStorage gives the next file: a unique suffix and the
\* extension of the original name.
filename(token, originalname) == <<token, extname(originalname)>>

\* upload.fileFilter throws (a plain Error)
fileFilterThrows(file) == ~StartsWithImage(file.mimetype)

\* getImageDimensions throws (a plain Error)
getImageDimensionsThrows(file) == file.width = 0 \/ file.height = 0

\* createFromFile on a stored file, with the two clock reads
createFromFile(tbl, file, stored, next, createdAt, updatedAt) ==
  IF getImageDimensionsThrows(file)
  THEN Result("Error", tbl, {})
  ELSE create(tbl,
              [originalFileName |-> Str(file.originalname),
               storedFileName   |-> Str(stored),
               mimeType         |-> Str(file.mimetype),
               width            |-> Num(file.width),
               height           |-> Num(file.height),
               fileSize         |-> Num(file.size),
               createdAt        |-> Str(createdAt),
               updatedAt        |-> Str(updatedAt),
               deletedAt        |-> JsonNull],
              next)

----------------------------------------------------------------------------
(* Requests *)

\* The files a client uploads: the declared MIME type, and the size and the
\* pixel dimensions of the content (0: the content has none to decode).
UploadFiles ==
  {[originalname |-> <<"a", ".png">>, mimetype |-> <<"image", "png">>,
    size |-> 3, width |-> 2, height |-> 1],
   [originalname |-> <<"c", ".png">>, mimetype |-> <<"image", "png">>,
    size |-> 3, width |-> 0, height |-> 0],
   [originalname |-> <<"b", ".txt">>, mimetype |-> <<"text", "plain">>,
    size |-> 3, width |-> 0, height |-> 0],
   [originalname |-> <<"d", ".png">>, mimetype |-> <<"application", "pdf">>,
    size |-> 3, width |-> 2, height |-> 1]}

\* The :id path parameters clients send
PathParams ==
  {<<DigitChars[n + 1]>> : n \in 0..MaxUploads}
    \cup {<<"x">>, <<"1", "x">>}

\* The JSON bodies clients send to PUT /:id.  Each body that passes
\* validateCreate carries every column but id.
Bodies ==
  << [f \in {} |-> JsonNull],
     [width |-> Num(0), fileSize |-> Num(-1)],
     [height |-> Str(<<"tall">>)],
     [deletedAt |-> Str(0)],
     [deletedAt |-> JsonNull],
     [updatedAt |-> Str(0)],
     [storedFileName |-> Str(<<0, ".png">>)],
     [id |-> Num(1), updatedAt |-> Str(0)],
     [originalFileName |-> Str(<<"a", ".png">>),
      storedFileName   |-> Str(<<1, ".png">>),
      mimeType         |-> Str(<<"image", "png">>),
      width            |-> Num(2),
      height           |-> Num(1),
      fileSize         |-> Num(3),
      createdAt        |-> Str(0),
      updatedAt        |-> Str(0),
      deletedAt        |-> JsonNull] >>

\* { id, ...updates }: the body's own id, if any, replaces the path's.
Spread(id, body) ==
  [f \in DOMAIN body \cup {"id"} |->
     IF f \in DOMAIN body THEN body[f] ELSE Num(id)]

\* The id a model addresses (NaN: none)
ModelId(model) == IF model.id.type = "number" THEN <<model.id.value>> ELSE NaN

\* The after field of the record of a request op on id
After(op, id) ==
  IF /\ last.err = "none"
     /\ last.id = id
     /\ <<last.op, op>> \in {<<"softDelete", "restore">>, <<"delete", "delete">>}
  THEN last.op
  ELSE "none"

\* The requests in flight together
Requests == 1..MaxRequests

\* The stored file name of no record
NoName == <<0, "">>

\* A request that has not arrived.  A request in flight has its operation, its
\* parsed id, and the place it has reached: "selected" (the select is back and
\* the record passed the checks), "deleted" (remove's delete is back), "done"
\* (the response is sent).  name, deletedAt, updatedAt and rowsAffected are
\* the locals of the service call; err and status are the response.  stale
\* and gone are history: stale, the update found the row in the state that
\* the check refuses; gone, a delete of another request took the row away
\* after this request had read it.
Idle ==
  [op |-> "none", id |-> NaN, pc |-> "idle", name |-> NoName,
   deletedAt |-> NULL, updatedAt |-> NULL, rowsAffected |-> 0,
   err |-> "none", status |-> 0, stale |-> FALSE, gone |-> FALSE]

\* The request op on id arrives
Arrived(op, id) == [Idle EXCEPT !.op = op, !.id = id]

\* The request s ends with err thrown ("none": with the success response);
\* the locals of its call are gone.
Done(s, err) ==
  [s EXCEPT !.pc = "done", !.name = NoName, !.deletedAt = NULL,
            !.updatedAt = NULL, !.rowsAffected = 0, !.err = err,
            !.status = IF err = "none" THEN OK ELSE errorHandler(err)]

Init ==
  /\ table = {}
  /\ files = {}
  /\ nextId = 1
  /\ nextFile = 1
  /\ now = 0
  /\ last = Record("none", NaN, NoInput, "none", 0, "null")
  /\ inflight = [p \in Requests |-> Idle]

\* POST / without a file part
PostNoFile ==
  /\ UNCHANGED now
  /\ last' = Failure("post", NaN, NoInput, "ValidationError")
  /\ UNCHANGED <<table, files, nextId, nextFile, inflight>>

\* POST / with a file the filter rejects: multer stores nothing.
PostRejected(file) ==
  /\ fileFilterThrows(file)
  /\ UNCHANGED now
  /\ last' = Failure("post", NaN, file.mimetype, "Error")
  /\ UNCHANGED <<table, files, nextId, nextFile, inflight>>

\* POST / with a file the filter accepts: multer stores it, then the handler
\* calls createFromFile.
PostStored(file) ==
  /\ ~fileFilterThrows(file)
  /\ nextFile <= MaxUploads
  /\ UNCHANGED inflight
  /\ \E updatedAt \in Clock(now) :
       LET stored == filename(nextFile, file.originalname)
           r      == createFromFile(table, file, stored, nextId,
                                    now, updatedAt)
       IN  /\ files' = files \cup {stored}
           /\ nextFile' = nextFile + 1
           /\ table' = r.table
           /\ nextId' = IF r.err = "none" THEN nextId + 1 ELSE nextId
           /\ now' = IF r.err = "none" THEN updatedAt ELSE now
           /\ last' = IF r.err = "none"
                      THEN Success("post", <<NewId(nextId)>>, file.mimetype,
                                   Created, "media")
                      ELSE Failure("post", NaN, file.mimetype, r.err)

Post ==
  \/ PostNoFile
  \/ \E file \in UploadFiles : PostRejected(file)
  \/ \E file \in UploadFiles : PostStored(file)

\* PUT /:id
Put(param, body) ==
  LET id == ParseInt(param)
  IN  /\ UNCHANGED <<files, nextFile, nextId, now, inflight>>
      /\ IF isNaN(id)
         THEN /\ last' = Failure("put", id, NoInput, "ValidationError")
              /\ UNCHANGED table
         ELSE LET model == Spread(id[1], body)
                  r     == createOrUpdate(table, model, nextId)
              IN  /\ table' = r.table
                  /\ last' =
                       IF r.err # "none"
                       THEN Failure("put", ModelId(model), NoInput, r.err)
                       ELSE IF r.rows = {}
                       THEN Failure("put", ModelId(model), NoInput,
                                    "NotFoundError")
                       ELSE Success("put", ModelId(model), NoInput, OK,
                                    "message")

\* DELETE /:id
Delete(param) ==
  LET id == ParseInt(param)
  IN  /\ UNCHANGED <<nextFile, nextId, now, inflight>>
      /\ IF isNaN(id)
         THEN /\ last' = Failure("delete", id, NoInput, "ValidationError")
              /\ UNCHANGED <<table, files>>
         ELSE LET found == SelectById(table, id[1])
                  outcomes ==
                    IF found = {}
                    THEN {"ok"}
                    ELSE UnlinkOutcomes(
                           files, (CHOOSE x \in found : TRUE).storedFileName)
              IN  \E outcome \in outcomes :
                    LET r == remove(table, files, id[1], outcome)
                        response ==
                          IF r.err # "none"
                          THEN Failure("delete", id, NoInput, r.err)
                          ELSE IF r.rowsAffected = 0
                          THEN Failure("delete", id, NoInput, "NotFoundError")
                          ELSE Success("delete", id, NoInput, OK, "null")
                    IN  /\ table' = r.table
                        /\ files' = r.files
                        /\ last' =
                             [response EXCEPT
                                !.unlink = IF found = {} THEN "none"
                                           ELSE outcome,
                                !.after = After("delete", id)]

\* PATCH /:id/soft-delete
PatchSoftDelete(param) ==
  LET id == ParseInt(param)
  IN  /\ UNCHANGED <<files, nextFile, nextId, inflight>>
      /\ IF isNaN(id)
         THEN /\ last' = Failure("softDelete", id, NoInput, "ValidationError")
              /\ UNCHANGED <<table, now>>
         ELSE \E updatedAt \in Clock(now) :
                LET r == softDelete(table, id[1], now, updatedAt)
                IN  /\ now' = IF r.err = "none" THEN updatedAt ELSE now
                    /\ table' = r.table
                    /\ last' =
                         IF r.err # "none"
                         THEN Failure("softDelete", id, NoInput, r.err)
                         ELSE IF r.rows = {}
                         THEN Failure("softDelete", id, NoInput,
                                      "NotFoundError")
                         ELSE Success("softDelete", id, NoInput, OK, "null")

\* PATCH /:id/restore
PatchRestore(param) ==
  LET id == ParseInt(param)
  IN  /\ UNCHANGED <<files, nextFile, nextId, inflight>>
      /\ IF isNaN(id)
         THEN /\ last' = Failure("restore", id, NoInput, "ValidationError")
              /\ UNCHANGED <<table, now>>
         ELSE LET r == restore(table, id[1], now)
                  response ==
                    IF r.err # "none"
                    THEN Failure("restore", id, NoInput, r.err)
                    ELSE IF r.rows = {}
                    THEN Failure("restore", id, NoInput, "NotFoundError")
                    ELSE Success("restore", id, NoInput, OK, "null")
              IN  /\ UNCHANGED now
                  /\ table' = r.table
                  /\ last' = [response EXCEPT !.after = After("restore", id)]

\* A direct call of the service's getById (no route serves it)
GetById(id) ==
  LET r == getById(table, id)
  IN  /\ UNCHANGED now
      /\ last' = Record("getById", <<id>>, NoInput, r.err, 0,
                         IF r.rows = {} THEN "empty" ELSE "rows")
      /\ UNCHANGED <<table, files, nextId, nextFile, inflight>>

\* Time passes between requests.
Tick ==
  /\ now < MaxTime
  /\ now' = now + 1
  /\ UNCHANGED <<table, files, nextId, nextFile, last, inflight>>

Next ==
  \/ Tick
  \/ Post
  \/ \E param \in PathParams : \E i \in 1..Len(Bodies) : Put(param, Bodies[i])
  \/ \E param \in PathParams : Delete(param)
  \/ \E param \in PathParams : PatchSoftDelete(param)
  \/ \E param \in PathParams : PatchRestore(param)
  \/ \E id \in 0..MaxUploads : GetById(id)

Spec == Init /\ [][Next]_vars

----------------------------------------------------------------------------
(* Requests in flight together *)

\* The :id path parameters of the requests in flight together
ConcParams == {<<DigitChars[n + 1]>> : n \in 0..MaxUploads}

\* PATCH /:id/soft-delete, up to the update: the select comes back, the
\* record is checked, the clock is read twice and the update is sent.
SoftDeleteSelect(p, param) ==
  LET id == ParseInt(param)
      s  == Arrived("softDelete", id)
  IN  /\ inflight[p].pc = "idle"
      /\ UNCHANGED <<table, files, nextId, nextFile, last>>
      /\ IF isNaN(id)
         THEN /\ inflight' = [inflight EXCEPT ![p] = Done(s, "ValidationError")]
              /\ UNCHANGED now
         ELSE LET err == softDeleteCheck(table, id[1])
              IN  IF err # "none"
                  THEN /\ inflight' = [inflight EXCEPT ![p] = Done(s, err)]
                       /\ UNCHANGED now
                  ELSE \E updatedAt \in Clock(now) :
                         /\ inflight' =
                              [inflight EXCEPT
                                 ![p] = [s EXCEPT !.pc = "selected",
                                                  !.deletedAt = now,
                                                  !.updatedAt = updatedAt]]
                         /\ now' = updatedAt

\* PATCH /:id/soft-delete, from the update on: the update is done on the
\* table as it is now, and the handler answers.
SoftDeleteWrite(p) ==
  LET s == inflight[p]
      r == softDeleteWrite(table, s.id[1], s.deletedAt, s.updatedAt)
  IN  /\ s.op = "softDelete"
      /\ s.pc = "selected"
      /\ table' = r.table
      /\ inflight' =
           [inflight EXCEPT
              ![p] = Done([s EXCEPT
                             !.stale = \E row \in SelectById(table, s.id[1]) :
                                         row.deletedAt # NULL],
                          IF r.rows = {} THEN "NotFoundError" ELSE "none")]
      /\ UNCHANGED <<files, nextId, nextFile, now, last>>

\* PATCH /:id/restore, up to the update
RestoreSelect(p, param) ==
  LET id == ParseInt(param)
      s  == Arrived("restore", id)
  IN  /\ inflight[p].pc = "idle"
      /\ UNCHANGED <<table, files, nextId, nextFile, now, last>>
      /\ IF isNaN(id)
         THEN inflight' = [inflight EXCEPT ![p] = Done(s, "ValidationError")]
         ELSE LET err == restoreCheck(table, id[1])
              IN  IF err # "none"
                  THEN inflight' = [inflight EXCEPT ![p] = Done(s, err)]
                  ELSE inflight' =
                         [inflight EXCEPT
                            ![p] = [s EXCEPT !.pc = "selected",
                                             !.updatedAt = now]]

\* PATCH /:id/restore, from the update on
RestoreWrite(p) ==
  LET s == inflight[p]
      r == restoreWrite(table, s.id[1], s.updatedAt)
  IN  /\ s.op = "restore"
      /\ s.pc = "selected"
      /\ table' = r.table
      /\ inflight' =
           [inflight EXCEPT
              ![p] = Done([s EXCEPT
                             !.stale = \E row \in SelectById(table, s.id[1]) :
                                         row.deletedAt = NULL],
                          IF r.rows = {} THEN "NotFoundError" ELSE "none")]
      /\ UNCHANGED <<files, nextId, nextFile, now, last>>

\* DELETE /:id, up to the delete: the select comes back with the record, or
\* with none.
RemoveSelect(p, param) ==
  LET id == ParseInt(param)
      s  == Arrived("delete", id)
  IN  /\ inflight[p].pc = "idle"
      /\ UNCHANGED <<table, files, nextId, nextFile, now, last>>
      /\ IF isNaN(id)
         THEN inflight' = [inflight EXCEPT ![p] = Done(s, "ValidationError")]
         ELSE LET found == SelectById(table, id[1])
              IN  IF found = {}
                  THEN inflight' =
                         [inflight EXCEPT ![p] = Done(s, "NotFoundError")]
                  ELSE inflight' =
                         [inflight EXCEPT
                            ![p] = [s EXCEPT
                                      !.pc = "selected",
                                      !.name = (CHOOSE r \in found : TRUE)
                                                 .storedFileName]]

\* DELETE /:id, the delete: the rows of the id that are there now go.  The
\* other requests that have read a row of this id have lost it.
RemoveDelete(p) ==
  LET s     == inflight[p]
      found == SelectById(table, s.id[1])
  IN  /\ s.op = "delete"
      /\ s.pc = "selected"
      /\ table' = DeleteById(table, s.id[1])
      /\ inflight' =
           [q \in Requests |->
              IF q = p
              THEN [s EXCEPT !.pc = "deleted",
                             !.rowsAffected = Cardinality(found)]
              ELSE IF /\ found # {}
                      /\ inflight[q].pc = "selected"
                      /\ inflight[q].id = s.id
                   THEN [inflight[q] EXCEPT !.gone = TRUE]
                   ELSE inflight[q]]
      /\ UNCHANGED <<files, nextId, nextFile, now, last>>

\* DELETE /:id, from fs.unlink on: whatever its outcome, remove returns the
\* result of the delete and the handler answers by its rowsAffected.
RemoveUnlink(p) ==
  LET s == inflight[p]
  IN  /\ s.op = "delete"
      /\ s.pc = "deleted"
      /\ \E outcome \in UnlinkOutcomes(files, s.name) :
           files' = Unlink(files, s.name, outcome)
      /\ inflight' =
           [inflight EXCEPT
              ![p] = Done(s, IF s.rowsAffected = 0 THEN "NotFoundError"
                             ELSE "none")]
      /\ UNCHANGED <<table, nextId, nextFile, now, last>>

\* The server with up to MaxRequests soft-deletes, restores and deletes in
\* flight together, among uploads, soft-deletes and PUTs of a whole record
\* that run from start to end between two steps of the others.
NextConc ==
  \/ Tick
  \/ \E file \in UploadFiles : PostStored(file)
  \/ \E param \in ConcParams : Put(param, Bodies[Len(Bodies)])
  \/ \E param \in ConcParams : PatchSoftDelete(param)
  \/ \E p \in Requests : \E param \in ConcParams : SoftDeleteSelect(p, param)
  \/ \E p \in Requests : SoftDeleteWrite(p)
  \/ \E p \in Requests : \E param \in ConcParams : RestoreSelect(p, param)
  \/ \E p \in Requests : RestoreWrite(p)
  \/ \E p \in Requests : \E param \in ConcParams : RemoveSelect(p, param)
  \/ \E p \in Requests : RemoveDelete(p)
  \/ \E p \in Requests : RemoveUnlink(p)

SpecConc == Init /\ [][NextConc]_vars

----------------------------------------------------------------------------
(* Properties *)

\* A step of a request (a tick changes the clock alone)
Request ==
  <<table, files, nextId, nextFile, last>>'
    # <<table, files, nextId, nextFile, last>>

\* The step is a request op with a numeric id
Step(op) == Request /\ last'.op = op /\ ~isNaN(last'.id)

\* The rows the request of the step addresses, before and after it
RowsBefore == SelectById(table, last'.id[1])
RowsAfter == SelectById(table', last'.id[1])

\* r and q agree on every column but those of cols
SameExcept(r, q, cols) == \A f \in Columns \ cols : r[f] = q[f]

\* C1: an upload whose declared MIME type does not start with "image/" fails
\* with a ValidationError mapped to status 400, and leaves the file store and
\* the table as they were.
C1_NonImageUploadIsBadRequest ==
  [][(/\ Request
      /\ last'.op = "post"
      /\ last'.input # NoInput
      /\ ~StartsWithImage(last'.input))
       => /\ last'.err = "ValidationError"
          /\ last'.status = BadRequest
          /\ files' = files
          /\ table' = table]_vars

\* C2: with requests one at a time, a soft-delete of a record whose deletedAt
\* is set and a restore of a record whose deletedAt is null fail with
\* ValidationError and leave the record unchanged.
C2_RedundantTransitionRejected ==
  [][/\ (Step("softDelete") /\ \E r \in RowsBefore : r.deletedAt # NULL)
          => (last'.err = "ValidationError" /\ table' = table)
     /\ (Step("restore") /\ \E r \in RowsBefore : r.deletedAt = NULL)
          => (last'.err = "ValidationError" /\ table' = table)]_vars

C2_Witness ==
  /\ last.op = "softDelete"
  /\ last.err = "ValidationError"
  /\ ~isNaN(last.id)
  /\ \E r \in SelectById(table, last.id[1]) : r.deletedAt # NULL

\* C3: a soft-delete of an active record succeeds, and the restore that
\* follows it succeeds too; the record then has deletedAt null, every column
\* but updatedAt and deletedAt is as it was before each of the two, and the
\* file store is unchanged.
C3_SoftDeleteRestoreRoundTrip ==
  [][/\ (Step("softDelete") /\ \E r \in RowsBefore : r.deletedAt = NULL)
          => /\ last'.err = "none"
             /\ files' = files
             /\ RowsAfter # {}
             /\ \A r \in RowsBefore : \A q \in RowsAfter :
                  /\ q.deletedAt # NULL
                  /\ SameExcept(r, q, {"updatedAt", "deletedAt"})
     /\ (/\ Step("restore")
         /\ last.op = "softDelete"
         /\ last.err = "none"
         /\ last.id = last'.id)
          => /\ last'.err = "none"
             /\ files' = files
             /\ RowsAfter # {}
             /\ \A r \in RowsBefore : \A q \in RowsAfter :
                  /\ q.deletedAt = NULL
                  /\ SameExcept(r, q, {"updatedAt", "deletedAt"})]_vars

C3_Witness ==
  /\ last.op = "restore"
  /\ last.after = "softDelete"
  /\ last.err = "none"
  /\ \E r \in SelectById(table, last.id[1]) : r.deletedAt = NULL

\* C4 as stated: on an id without a row, getById, remove, softDelete and
\* restore all fail with NotFoundError, mapped to status 404 with data null,
\* and leave the table and the file store unchanged.
C4_MissingIdIsNotFound ==
  [][(/\ Request
      /\ last'.op \in {"getById", "delete", "softDelete", "restore"}
      /\ ~isNaN(last'.id)
      /\ RowsBefore = {})
       => /\ last'.err = "NotFoundError"
          /\ last'.status = NotFound
          /\ last'.data = "null"
          /\ table' = table
          /\ files' = files]_vars

\* C4 amended: on an id without a row, remove, softDelete and restore fail
\* with NotFoundError, mapped to status 404 with data null, while getById
\* returns an empty result and throws nothing; all four leave the table and
\* the file store unchanged.
C4_MissingIdIsNotFoundButGetByIdIsEmpty ==
  [][/\ (/\ Request
         /\ last'.op \in {"delete", "softDelete", "restore"}
         /\ ~isNaN(last'.id)
         /\ RowsBefore = {})
          => /\ last'.err = "NotFoundError"
             /\ last'.status = NotFound
             /\ last'.data = "null"
             /\ table' = table
             /\ files' = files
     /\ (Step("getById") /\ RowsBefore = {})
          => /\ last'.err = "none"
             /\ last'.data = "empty"
             /\ table' = table
             /\ files' = files]_vars

C4_Witness ==
  /\ last.op \in {"delete", "softDelete", "restore"}
  /\ ~isNaN(last.id)
  /\ SelectById(table, last.id[1]) = {}
  /\ last.after = "none"
  /\ last.err = "NotFoundError"
  /\ last.status = NotFound

\* C5 as stated: after a successful hard delete the table has no row with
\* that id and the file store has no file under the record's storedFileName;
\* a second delete of the id right after it fails with NotFoundError and
\* changes nothing.
C5_RemoveDeletesRowAndFile ==
  [][/\ (Step("delete") /\ last'.err = "none")
          => /\ RowsAfter = {}
             /\ \A r \in RowsBefore : r.storedFileName \notin files'
     /\ (/\ Step("delete")
         /\ last.op = "delete"
         /\ last.err = "none"
         /\ last.id = last'.id)
          => /\ last'.err = "NotFoundError"
             /\ table' = table
             /\ files' = files]_vars

\* C5 amended: after a successful hard delete the table has no row with that
\* id, and the file store has no file under the record's storedFileName
\* unless fs.unlink failed with an error other than ENOENT, in which case the
\* file store is unchanged; no other file is removed; a second delete of the
\* id right after it fails with NotFoundError and changes nothing.
C5_RemoveDeletesRowAndFileUnlessUnlinkFails ==
  [][/\ (Step("delete") /\ last'.err = "none")
          => /\ RowsAfter = {}
             /\ RowsBefore # {}
             /\ \A r \in RowsBefore :
                  /\ last'.unlink # "EIO" => r.storedFileName \notin files'
                  /\ last'.unlink = "EIO" => files' = files
                  /\ files \ {r.storedFileName} \subseteq files'
                  /\ files' \subseteq files
     /\ (/\ Step("delete")
         /\ last.op = "delete"
         /\ last.err = "none"
         /\ last.id = last'.id)
          => /\ last'.err = "NotFoundError"
             /\ table' = table
             /\ files' = files]_vars

\* A successful hard delete whose unlink removed the file, and the second
\* delete after a successful one
C5_Witness ==
  /\ last.op = "delete"
  /\ last.after = "delete"
  /\ last.err = "NotFoundError"
  /\ files = {}
  /\ nextFile > 1

\* C6: the deletedAt of a record changes from null to non-null only by a
\* soft-delete and from non-null to null only by a restore, and no other
\* request changes it.
C6_DeletedAtOnlyBySoftDeleteAndRestore ==
  [][Request =>
       \A r \in table : \A q \in table' :
         (r.id = q.id /\ r.deletedAt # q.deletedAt)
           => \/ /\ last'.op = "softDelete"
                 /\ r.deletedAt = NULL
              \/ /\ last'.op = "restore"
                 /\ q.deletedAt = NULL]_vars

\* C7: every row of the table has width > 0, height > 0 and fileSize > 0.
C7_DimensionsPositive ==
  \A r \in table : r.width > 0 /\ r.height > 0 /\ r.fileSize > 0

\* C8: every row's storedFileName names a file of the file store, and no two
\* rows share a storedFileName.
C8_StoredFileNameMapsToOneFile ==
  \A r \in table :
    /\ r.storedFileName \in files
    /\ \A q \in table : q.storedFileName = r.storedFileName => q = r

\* C9: a successful update of an existing record sets its updatedAt to the
\* current time, whatever the body carries, and leaves its id unchanged.
C9_UpdateSetsUpdatedAt ==
  [][(Step("put") /\ last'.err = "none" /\ RowsBefore # {})
       => /\ RowsAfter # {}
          /\ \A q \in RowsAfter : q.updatedAt = now]_vars

\* C10: a hard delete of an existing record answers 200 once the row is
\* deleted, whatever the outcome of the file removal: a missing file and any
\* other failure of fs.unlink are swallowed, and the row stays deleted.
C10_RemoveSucceedsWhateverUnlinkDoes ==
  [][(Step("delete") /\ RowsBefore # {})
       => /\ last'.err = "none"
          /\ last'.status = OK
          /\ last'.unlink \in {"ok", "ENOENT", "EIO"}
          /\ RowsAfter = {}
          /\ table' = DeleteById(table, last'.id[1])]_vars

\* A hard delete whose fs.unlink failed with an error other than ENOENT
C10_Witness ==
  /\ last.op = "delete"
  /\ last.unlink = "EIO"
  /\ last.status = OK
  /\ SelectById(table, last.id[1]) = {}

\* The ids of the rows of a table
Ids(tbl) == {r.id : r \in tbl}

\* C11: createOrUpdate dispatches to update for every id the PUT route can
\* parse, 0 included, and to create only without an id, so a PUT /:id request
\* never inserts a row.
C11_PutNeverInserts ==
  [][Step("put") => Ids(table') \subseteq Ids(table)]_vars

\* The step is the update of request p, in flight with operation op
WriteStep(p, op) ==
  /\ inflight[p].op = op
  /\ inflight[p].pc = "selected"
  /\ inflight'[p].pc = "done"

\* C12: with requests in flight together, the check of deletedAt and the
\* update are two steps, and the update asks only for the id: the update of a
\* soft-delete that finds its row succeeds and stamps it even when another
\* soft-delete has set deletedAt since the check, so both requests get the
\* success response and neither a ValidationError; the update of a restore
\* likewise succeeds on a row another restore has already made active.
C12_CheckThenActBothSucceed ==
  [][\A p \in Requests :
       LET s   == inflight[p]
           t   == inflight'[p]
           old == SelectById(table, s.id[1])
           new == SelectById(table', s.id[1])
       IN  /\ (WriteStep(p, "softDelete") /\ old # {})
                => /\ t.err = "none"
                   /\ t.status = OK
                   /\ new # {}
                   /\ \A r \in new : /\ r.deletedAt = s.deletedAt
                                     /\ r.updatedAt = s.updatedAt
           /\ (WriteStep(p, "restore") /\ old # {})
                => /\ t.err = "none"
                   /\ t.status = OK
                   /\ new # {}
                   /\ \A r \in new : /\ r.deletedAt = NULL
                                     /\ r.updatedAt = s.updatedAt]_vars

\* Two soft-deletes of one id have both answered with success, and the
\* update of one found the row already soft-deleted.
C12_Witness ==
  \E p, q \in Requests :
    /\ p # q
    /\ inflight[p].op = "softDelete" /\ inflight[q].op = "softDelete"
    /\ inflight[p].id = inflight[q].id
    /\ inflight[p].pc = "done" /\ inflight[q].pc = "done"
    /\ inflight[p].status = OK /\ inflight[q].status = OK
    /\ inflight[p].err = "none" /\ inflight[q].err = "none"
    /\ inflight[q].stale

\* The same for two restores of one id
C12_RestoreWitness ==
  \E p, q \in Requests :
    /\ p # q
    /\ inflight[p].op = "restore" /\ inflight[q].op = "restore"
    /\ inflight[p].id = inflight[q].id
    /\ inflight[p].pc = "done" /\ inflight[q].pc = "done"
    /\ inflight[p].status = OK /\ inflight[q].status = OK
    /\ inflight[q].stale

\* Request p answers in the step
Answers(p) == inflight[p].pc # "done" /\ inflight'[p].pc = "done"

\* C13: whatever the interleaving of the requests on one id, a row that a
\* delete took away does not come back and no request is told it changed it:
\* a request that had read the row before the delete took it, and goes on
\* after, answers NotFoundError (404), so of two deletes in flight together
\* one succeeds and the other gets 404, and a soft-delete or restore that
\* writes after the delete leaves the table without the row.
C13_DeletedRowStaysDeleted ==
  [][\A p \in Requests :
       (Answers(p) /\ inflight[p].gone)
         => /\ inflight'[p].err = "NotFoundError"
            /\ inflight'[p].status = NotFound
            /\ inflight[p].op \in {"softDelete", "restore"}
                 => SelectById(table', inflight[p].id[1]) = {}]_vars

====
